---- MODULE Spec2Model ----
(***************************************************************************)
(* Model of solution.py: the student/room ETL pipeline.                    *)
(*                                                                         *)
(*   MySqlConnection  - connect / close / execute / executemany / fetchall *)
(*   MySqlProcessor   - initialize_db, clear_tables, insert_data,          *)
(*                      retrieve_filtered_data, run                        *)
(*                                                                         *)
(* The MySQL server is modelled by what the statements of solution.py can  *)
(* observe: which database, tables and indexes exist, the committed rows   *)
(* and the rows as the open session sees them (autocommit is off, the      *)
(* driver's default).                                                      *)
(***************************************************************************)
EXTENDS Integers, Sequences, FiniteSets, TLC

----------------------------------------------------------------------------
(* Bounds and input universes *)

\* Longest list of records an input file (or an insert_data argument) holds.
MaxBatch == 2
\* Number of times the program is started against the same server.
MaxRuns == 2
\* Number of calls a client of the classes makes on one processor.
MaxCalls == 4

RoomIds == {1, 2}
StudentIds == {1, 2}
\* Room references a student record may carry: the id of a room, which
\* the rooms at hand may or may not include.
RoomRefs == RoomIds

RoomNameOf(i) == IF i = 1 THEN "A" ELSE "B"
StudentNameOf(i) == IF i = 1 THEN "X" ELSE "Y"
BirthdayOf(i) == IF i = 1 THEN <<1990, 1, 1>> ELSE <<2000, 1, 1>>
SexOf(i) == IF i = 1 THEN "M" ELSE "F"

\* Room(id, name)                                (dataclass Room)
Room(i, n) == [id |-> i, name |-> n]
\* Student(id, name, room_id, birthday, sex)     (dataclass Student)
Student(i, n, r, b, s) ==
    [id |-> i, name |-> n, room_id |-> r, birthday |-> b, sex |-> s]

RoomRows == {Room(i, RoomNameOf(i)) : i \in RoomIds}
StudentRows ==
    {Student(i, StudentNameOf(i), r, BirthdayOf(i), SexOf(i)) :
        i \in StudentIds, r \in RoomRefs}

\* All lists of at most MaxBatch elements of S.
Batches(S) == UNION {[1..n -> S] : n \in 0..MaxBatch}

Range(f) == {f[i] : i \in DOMAIN f}

----------------------------------------------------------------------------
(* The MySQL server as the statements of solution.py see it *)

TableNames == {"rooms", "students"}
IndexNames ==
    {"idx_students_room_id", "idx_students_birthday", "idx_students_room_sex"}

\* Exception kinds.  "None" stands for "no exception".
MySqlErrors ==
    {"InterfaceError", "OperationalError", "ProgrammingError",
     "DuplicateKeyName", "DuplicateEntry", "ForeignKeyViolation"}
LoadErrors == {"FileNotFoundError", "ValueError", "KeyError"}
PythonErrors == {"AttributeError"} \cup LoadErrors
Errors == MySqlErrors \cup PythonErrors

\* A server on which nothing has been provisioned.
EmptyServer ==
    [exists |-> FALSE, tables |-> {}, indexes |-> {},
     rooms |-> {}, students |-> {}]

\* What a session sees right after it is opened on (or rolled back to) srv.
FreshSession(srv) ==
    [selected |-> FALSE, rooms |-> srv.rooms, students |-> srv.students]

Ids(rows) == {r.id : r \in rows}

\* COMMIT: the session's rows become the durable rows.
Commit(srv, ses) ==
    [srv EXCEPT !.rooms = ses.rooms, !.students = ses.students]
\* ROLLBACK: the session's rows are the durable rows again.
Rollback(srv, ses) ==
    [ses EXCEPT !.rooms = srv.rooms, !.students = srv.students]

\* What a cursor holds after a statement: the rows of a SELECT, ready to
\* be fetched, or no result set.
NoResult == [ready |-> FALSE, rows |-> <<>>]
ResultSet(rows) == [ready |-> TRUE, rows |-> rows]

\* Outcome of one statement: the error it raises ("None": it succeeded),
\* the server and session afterwards and what it leaves on the cursor.
Outcome(e, srv, ses, res) == [err |-> e, srv |-> srv, ses |-> ses, res |-> res]

\* CREATE DATABASE IF NOT EXISTS <name>   (data definition: implicit commit)
CreateDatabase(srv, ses) ==
    Outcome("None", [Commit(srv, ses) EXCEPT !.exists = TRUE], ses, NoResult)

\* USE <name>
UseDatabase(srv, ses) ==
    IF srv.exists
    THEN Outcome("None", srv, [ses EXCEPT !.selected = TRUE], NoResult)
    ELSE Outcome("ProgrammingError", srv, ses, NoResult)

\* CREATE TABLE IF NOT EXISTS rooms (id PRIMARY KEY, name NOT NULL)
CreateRoomTable(srv, ses) ==
    IF ~ses.selected
    THEN Outcome("ProgrammingError", srv, ses, NoResult)
    ELSE Outcome("None",
                 [Commit(srv, ses) EXCEPT !.tables = @ \cup {"rooms"}],
                 ses, NoResult)

\* CREATE TABLE IF NOT EXISTS students (..., FOREIGN KEY (room_id)
\* REFERENCES rooms (id))
CreateStudentTable(srv, ses) ==
    IF ~ses.selected
    THEN Outcome("ProgrammingError", srv, ses, NoResult)
    ELSE IF "students" \in srv.tables
    THEN Outcome("None", Commit(srv, ses), ses, NoResult)
    ELSE IF "rooms" \notin srv.tables
    THEN Outcome("ProgrammingError", Commit(srv, ses), ses, NoResult)
    ELSE Outcome("None",
                 [Commit(srv, ses) EXCEPT !.tables = @ \cup {"students"}],
                 ses, NoResult)

\* CREATE INDEX <name> ON students (...): no IF NOT EXISTS, an index of
\* that name already there is error 1061 (duplicate key name).
CreateIndex(name, srv, ses) ==
    IF ~ses.selected \/ "students" \notin srv.tables
    THEN Outcome("ProgrammingError", srv, ses, NoResult)
    ELSE IF name \in srv.indexes
    THEN Outcome("DuplicateKeyName", Commit(srv, ses), ses, NoResult)
    ELSE Outcome("None",
                 [Commit(srv, ses) EXCEPT !.indexes = @ \cup {name}],
                 ses, NoResult)

\* DELETE FROM students
DeleteStudents(srv, ses) ==
    IF ~ses.selected \/ "students" \notin srv.tables
    THEN Outcome("ProgrammingError", srv, ses, NoResult)
    ELSE Outcome("None", srv, [ses EXCEPT !.students = {}], NoResult)

\* As DeleteRooms, deleting no row.
DeleteRooms_NoRow(srv, ses) ==
    IF ~ses.selected \/ "rooms" \notin srv.tables
    THEN Outcome("ProgrammingError", srv, ses, NoResult)
    ELSE Outcome("None", srv, ses, NoResult)

\* DELETE FROM rooms: refused while a student row references a room row.
DeleteRooms(srv, ses) ==
    IF ~ses.selected \/ "rooms" \notin srv.tables
    THEN Outcome("ProgrammingError", srv, ses, NoResult)
    ELSE IF \E s \in ses.students : s.room_id \in Ids(ses.rooms)
    THEN Outcome("ForeignKeyViolation", srv, ses, NoResult)
    ELSE Outcome("None", srv, [ses EXCEPT !.rooms = {}], NoResult)

\* INSERT INTO rooms (id, name) VALUES (%s, %s), once per row of the batch.
\* The error of the first row the table refuses, "None" when all fit.
RECURSIVE InsertRoomRows(_, _)
InsertRoomRows(rows, table) ==
    IF rows = <<>> THEN [err |-> "None", table |-> table]
    ELSE IF Head(rows).id \in Ids(table)
    THEN [err |-> "DuplicateEntry", table |-> table]
    ELSE InsertRoomRows(Tail(rows), table \cup {Head(rows)})

\* As InsertStudentRows, on a students table without the FOREIGN KEY.
RECURSIVE InsertStudentRows_NoForeignKey(_, _, _)
InsertStudentRows_NoForeignKey(rows, table, roomTable) ==
    IF rows = <<>> THEN [err |-> "None", table |-> table]
    ELSE IF Head(rows).id \in Ids(table)
    THEN [err |-> "DuplicateEntry", table |-> table]
    ELSE InsertStudentRows_NoForeignKey(Tail(rows), table \cup {Head(rows)},
                                        roomTable)

\* INSERT INTO students (id, name, room_id, birthday, sex) VALUES (...),
\* once per row of the batch; room_id must be the id of a room row.
RECURSIVE InsertStudentRows(_, _, _)
InsertStudentRows(rows, table, roomTable) ==
    IF rows = <<>> THEN [err |-> "None", table |-> table]
    ELSE IF Head(rows).id \in Ids(table)
    THEN [err |-> "DuplicateEntry", table |-> table]
    ELSE IF Head(rows).room_id \notin Ids(roomTable)
    THEN [err |-> "ForeignKeyViolation", table |-> table]
    ELSE InsertStudentRows(Tail(rows), table \cup {Head(rows)}, roomTable)

\* The batch as the cursor runs it: the rows it added stay in the session
\* (uncommitted) when all fit; on an error the rows added so far are the
\* session's to roll back.
InsertRooms(rows, srv, ses) ==
    IF ~ses.selected \/ "rooms" \notin srv.tables
    THEN Outcome("ProgrammingError", srv, ses, NoResult)
    ELSE LET r == InsertRoomRows(rows, ses.rooms)
         IN  Outcome(r.err, srv, [ses EXCEPT !.rooms = r.table], NoResult)

InsertStudents(rows, srv, ses) ==
    IF ~ses.selected \/ "students" \notin srv.tables
    THEN Outcome("ProgrammingError", srv, ses, NoResult)
    ELSE LET r == InsertStudentRows(rows, ses.students, ses.rooms)
         IN  Outcome(r.err, srv, [ses EXCEPT !.students = r.table], NoResult)

----------------------------------------------------------------------------
(* The four report queries *)

\* CURDATE() at the time the reports run.
Today == <<2026, 11, 1>>

\* LIMIT 5 of the average-age and age-difference queries.
ReportLimit == 5

DateLess(a, b) ==
    \/ a[1] < b[1]
    \/ a[1] = b[1] /\ a[2] < b[2]
    \/ a[1] = b[1] /\ a[2] = b[2] /\ a[3] < b[3]

\* TIMESTAMPDIFF(YEAR, a, b): whole years from a to b, negative when b is
\* before a.
TimestampDiffYear(a, b) ==
    LET before(x, y) == x[2] < y[2] \/ (x[2] = y[2] /\ x[3] < y[3])
    IN  IF DateLess(b, a)
        THEN -((a[1] - b[1]) - (IF before(a, b) THEN 1 ELSE 0))
        ELSE (b[1] - a[1]) - (IF before(b, a) THEN 1 ELSE 0)

\* rooms AS r JOIN students AS s ON r.id = s.room_id GROUP BY r.name:
\* the names that have a joined row, and the student rows of a name.
GroupNames(ses) ==
    {r.name : r \in {x \in ses.rooms : x.id \in {s.room_id : s \in ses.students}}}
\* As GroupOf, with the join's ON condition left out.
GroupOf_CrossJoin(n, ses) == ses.students
GroupOf(n, ses) ==
    {s \in ses.students : \E r \in ses.rooms : r.name = n /\ r.id = s.room_id}

MinDate(S) == CHOOSE a \in S : \A b \in S : ~DateLess(b, a)
MaxDate(S) == CHOOSE a \in S : \A b \in S : ~DateLess(a, b)

\* Every order in which the engine may return the rows of S when asked to
\* ORDER BY a key: InOrder(x, y) says x may come before y.  Rows of equal
\* key come in any order.
Orderings(S, InOrder(_, _)) ==
    {f \in [1..Cardinality(S) -> S] :
        /\ \A i, j \in DOMAIN f : i # j => f[i] # f[j]
        /\ \A i, j \in DOMAIN f : i < j => InOrder(f[i], f[j])}

\* LIMIT n
Limit(rows, n) == IF Len(rows) <= n THEN rows ELSE SubSeq(rows, 1, n)

\* SELECT r.name, COUNT(s.id) ... GROUP BY r.name ORDER BY student_count DESC
StudentCounts(ses) ==
    Orderings({<<n, Cardinality(GroupOf(n, ses))>> : n \in GroupNames(ses)},
              LAMBDA x, y : x[2] >= y[2])

\* SELECT r.name, AVG(TIMESTAMPDIFF(YEAR, s.birthday, CURDATE())) ...
\* ORDER BY average_age ASC LIMIT 5.  The average is kept as <<sum, count>>.
RECURSIVE AgeSum(_)
AgeSum(G) ==
    IF G = {} THEN 0
    ELSE LET s == CHOOSE x \in G : TRUE
         IN  TimestampDiffYear(s.birthday, Today) + AgeSum(G \ {s})
SmallestAvgAge(ses) ==
    {Limit(f, ReportLimit) :
        f \in Orderings(
            {<<n, <<AgeSum(GroupOf(n, ses)), Cardinality(GroupOf(n, ses))>>>> :
                n \in GroupNames(ses)},
            LAMBDA x, y : x[2][1] * y[2][2] <= y[2][1] * x[2][2])}

\* SELECT r.name, TIMESTAMPDIFF(YEAR, MIN(s.birthday), MAX(s.birthday)) ...
\* ORDER BY age_difference DESC LIMIT 5
AgeDifference(G) ==
    LET days == {s.birthday : s \in G}
    IN  TimestampDiffYear(MinDate(days), MaxDate(days))
LargestAgeDiff(ses) ==
    {Limit(f, ReportLimit) :
        f \in Orderings(
            {<<n, AgeDifference(GroupOf(n, ses))>> : n \in GroupNames(ses)},
            LAMBDA x, y : x[2] >= y[2])}

\* SELECT r.name ... GROUP BY r.name HAVING COUNT(DISTINCT s.sex) > 1
MixedSexRooms(ses) ==
    Orderings(
        {<<n>> : n \in {m \in GroupNames(ses) :
                         Cardinality({s.sex : s \in GroupOf(m, ses)}) > 1}},
        LAMBDA x, y : TRUE)

\* As Select, with the texts of the occupancy and the age-difference query
\* taken one for the other.
Select_Swapped(query, srv, ses) ==
    IF ~ses.selected \/ srv.tables # TableNames
    THEN {Outcome("ProgrammingError", srv, ses, NoResult)}
    ELSE {Outcome("None", srv, ses, ResultSet(rows)) :
            rows \in CASE query = "student_counts" -> LargestAgeDiff(ses)
                       [] query = "smallest_avg_age" -> SmallestAvgAge(ses)
                       [] query = "largest_age_diff" -> StudentCounts(ses)
                       [] OTHER -> MixedSexRooms(ses)}

\* The result sets a SELECT may leave on the cursor.
Select(query, srv, ses) ==
    IF ~ses.selected \/ srv.tables # TableNames
    THEN {Outcome("ProgrammingError", srv, ses, NoResult)}
    ELSE {Outcome("None", srv, ses, ResultSet(rows)) :
            rows \in CASE query = "student_counts" -> StudentCounts(ses)
                       [] query = "smallest_avg_age" -> SmallestAvgAge(ses)
                       [] query = "largest_age_diff" -> LargestAgeDiff(ses)
                       [] OTHER -> MixedSexRooms(ses)}

----------------------------------------------------------------------------
(* State *)

VARIABLES
    server,     \* the MySQL server: what exists and the committed rows
    session,    \* the open session: database selected, rows as it sees them
    conn,       \* MySqlConnection.conn:   "None" | "open" | "closed"
    cursor,     \* MySqlConnection.cursor: "None" | "open" | "closed"
    result,     \* what the cursor holds: the rows of a query, or nothing
    files,      \* students.json / rooms.json, fixed once they are read
    top,        \* who drives the classes: "run" (main) or "client"
    pc,         \* the statement about to execute
    call,       \* the method of the pipeline in progress (or last called)
    error,      \* the exception raised by the call, "None" if none
    rooms,      \* the list of Room the call works on
    students,   \* the list of Student the call works on
    out,        \* the reports handed back so far: <<query, rows>>
    logged,     \* the failure run() printed, "None" if none
    escaped,    \* an exception left run()
    runs,       \* how many times main() was started
    calls,      \* how many calls the client made
    started,    \* the steps run() has started, in order
    states,     \* the states the orchestrator went through, in order
    batches,    \* the batches insert_data attempted: <<table, error>>
    pre,        \* server, session and connection when the call began
    prev        \* what the run before left (at first: the target as found)

vars ==
    <<server, session, conn, cursor, result, files, top, pc, call, error,
      rooms, students, out, logged, escaped, runs, calls, started, states,
      batches, pre, prev>>

Snapshot ==
    [server |-> server, session |-> session, conn |-> conn, cursor |-> cursor]

\* The file contents the loader can meet: a list of records, or the
\* exception reading it raises (no such file, not JSON or a birthday that
\* does not match the pattern, a record without one of its keys).
File(e, rows) == [err |-> e, rows |-> rows]
Loadable(S) == {File("None", b) : b \in Batches(S)}
RoomFiles == Loadable(RoomRows) \cup {File(e, <<>>) : e \in LoadErrors}
StudentFiles == Loadable(StudentRows) \cup {File(e, <<>>) : e \in LoadErrors}
Unread == [read |-> FALSE, rooms |-> File("None", <<>>),
           students |-> File("None", <<>>)]
Files(R, S) == [read : {TRUE}, rooms : R, students : S]

\* Targets the program may be started against: a server with nothing on
\* it, or one on which the database and both tables were already created
\* and filled, without the indexes (CREATE ... IF NOT EXISTS is there for
\* the former, CREATE INDEX for the latter).
Consistent(rs, ss) ==
    /\ \A a, b \in rs : a.id = b.id => a = b
    /\ \A a, b \in ss : a.id = b.id => a = b
    /\ \A a \in ss : a.room_id \in Ids(rs)
FilledTargets ==
    {t \in [exists : {TRUE}, tables : {TableNames}, indexes : {{}},
            rooms : SUBSET RoomRows, students : SUBSET StudentRows] :
        Consistent(t.rooms, t.students)}
Targets == {EmptyServer} \cup FilledTargets

\* MySqlConnection.__init__, MySqlProcessor.__init__ and nothing called yet.
InitObjects ==
    /\ conn = "None" /\ cursor = "None" /\ result = NoResult
    /\ session = FreshSession(server)
    /\ files = Unread
    /\ call = "None" /\ error = "None"
    /\ rooms = <<>> /\ students = <<>> /\ out = <<>>
    /\ logged = "None" /\ escaped = FALSE
    /\ runs = 0 /\ calls = 0
    /\ started = <<>> /\ states = <<>> /\ batches = <<>>
    /\ pre = Snapshot
    /\ prev = [reported |-> FALSE, rooms |-> server.rooms,
               students |-> server.students]

\* The program: main() is about to be started.
Init ==
    /\ server \in Targets
    /\ top = "run" /\ pc = "main"
    /\ InitObjects

\* A client (a test) holding a MySqlConnection and a MySqlProcessor.
InitClient ==
    /\ server = EmptyServer
    /\ top = "client" /\ pc = "idle"
    /\ InitObjects

----------------------------------------------------------------------------
(* Control flow of run() and of a client's calls *)

\* As RunSteps, with the tables cleared before the schema is initialized.
RunSteps_ClearFirst ==
    <<"connect", "clear", "initialize", "load", "insert", "report">>

\* run(): the steps inside the try block, in the order the code takes them
\* (the with statement's __enter__ first, then the body of the with).
RunSteps == <<"connect", "initialize", "clear", "load", "insert", "report">>

\* The state the orchestrator is in once a step has returned.
StateAfter(step) ==
    CASE step = "connect" -> "Connected"
      [] step = "initialize" -> "SchemaReady"
      [] step = "clear" -> "TablesClear"
      [] step = "load" -> "DataLoaded"
      [] step = "insert" -> "DataInserted"
      [] OTHER -> "Reported"

IndexOf(step) == CHOOSE i \in DOMAIN RunSteps : RunSteps[i] = step

\* run(): the step that follows the one that just returned.
NextInRun ==
    IF IndexOf(call) < Len(RunSteps) THEN RunSteps[IndexOf(call) + 1]
    ELSE "release"

\* A method of the pipeline is called: by run(), when it is the next step,
\* or by the client, whenever it likes.
CanCall(step) ==
    \/ top = "client" /\ pc = "idle" /\ calls < MaxCalls
    \/ top = "run" /\ pc = "body" /\ NextInRun = step

Begin(step) ==
    /\ call' = step
    /\ pre' = Snapshot
    /\ started' = IF top = "run" THEN Append(started, step) ELSE started
    /\ calls' = IF top = "client" THEN calls + 1 ELSE calls

\* As OnRaise, with the exception of a step swallowed inside run(), which
\* goes on with the step after it.
OnRaise_Swallowed(step) ==
    IF top = "client" THEN "idle"
    ELSE IF step = "connect" THEN "except"
    ELSE "body"

\* As OnRaise, with run() going on with the body of the with statement
\* when __enter__ raised.
OnRaise_EnterIgnored(step) ==
    IF top = "client" THEN "idle"
    ELSE IF step = "connect" THEN "body"
    ELSE "exit"

\* Where an exception raised in a step takes control.  In run() the with
\* statement calls __exit__ for an exception of its body, not for one of
\* __enter__: that one goes straight to the except clause.
OnRaise(step) ==
    IF top = "client" THEN "idle"
    ELSE IF step = "connect" THEN "except"
    ELSE "exit"

\* `except Exception as e`: every exception kind of the model is one.
Catches(e) == e \in Errors

Raise(e, step) ==
    /\ error' = e
    /\ pc' = OnRaise(step)
    /\ states' = states

Return(step) ==
    /\ error' = "None"
    /\ IF top = "client"
       THEN pc' = "idle" /\ states' = states
       ELSE /\ pc' = IF step = RunSteps[Len(RunSteps)] THEN "exit" ELSE "body"
            /\ states' = Append(states, StateAfter(step))

Goto(label) ==
    /\ error' = "None"
    /\ pc' = label
    /\ states' = states

----------------------------------------------------------------------------
(* MySqlConnection *)

\* As Truthy, with close() calling .close() without looking.
Truthy_Unguarded(handle) == TRUE

\* `if self.cursor:` / `if self.conn:`
Truthy(handle) == handle # "None"

\* cursor.close() / conn.close() of the driver: closing an open handle
\* closes it, closing a closed one does nothing; None has no close().
DriverClose(handle) ==
    IF handle = "None" THEN [err |-> "AttributeError", handle |-> handle]
    ELSE [err |-> "None", handle |-> "closed"]

\* close(): the cursor, then the session.  [err, cursor, conn] afterwards.
close(cur, cn) ==
    LET c == IF Truthy(cur) THEN DriverClose(cur)
             ELSE [err |-> "None", handle |-> cur]
        n == IF c.err # "None" THEN [err |-> c.err, handle |-> cn]
             ELSE IF Truthy(cn) THEN DriverClose(cn)
             ELSE [err |-> "None", handle |-> cn]
    IN  [err |-> n.err, cursor |-> c.handle, conn |-> n.handle]

\* The effect of close() on the connection object and on the server's
\* side of the session: uncommitted work of a session that ends is lost.
DoClose ==
    LET c == close(cursor, conn)
    IN  /\ cursor' = c.cursor
        /\ conn' = c.conn
        /\ result' = IF c.cursor = cursor THEN result ELSE NoResult
        /\ session' = IF c.conn = conn THEN session ELSE FreshSession(server)

\* execute(query): self.cursor.execute(query).  `outcomes` is what the
\* statement may do on an open cursor, `cont` where control goes when it
\* succeeds.  Any statement may also fail for reasons of the server's own
\* (OperationalError), with no effect.
execute(outcomes, step, cont) ==
    IF cursor # "open"
    THEN /\ UNCHANGED <<server, session, result>>
         /\ Raise(IF cursor = "None" THEN "AttributeError"
                  ELSE "ProgrammingError", step)
    ELSE \/ \E o \in outcomes :
              /\ server' = o.srv
              /\ session' = o.ses
              /\ result' = o.res
              /\ IF o.err = "None" THEN cont ELSE Raise(o.err, step)
         \/ /\ UNCHANGED <<server, session>>
            /\ result' = NoResult
            /\ Raise("OperationalError", step)

\* executemany: `self.conn.commit()` after the batch
BatchCommitted(srv, ses) == Commit(srv, ses)
\* As BatchFailed, without the rollback.
BatchFailed_NoRollback(srv, ses) == ses

\* executemany: `except mysql.connector.Error: self.conn.rollback(); raise`
BatchFailed(srv, ses) == Rollback(srv, ses)

\* executemany(query, rows).  `o` is what the batch does on an open cursor.
executemany(table, o, step, cont) ==
    IF cursor = "None"
    THEN \* AttributeError is no mysql.connector.Error: it is not caught
         /\ UNCHANGED <<server, session, result>>
         /\ batches' = Append(batches, <<table, "AttributeError">>)
         /\ Raise("AttributeError", step)
    ELSE IF cursor = "closed"
    THEN \* ProgrammingError is caught; rollback() on the closed session
         \* raises OperationalError in its place
         /\ UNCHANGED <<server, session, result>>
         /\ batches' = Append(batches, <<table, "OperationalError">>)
         /\ Raise("OperationalError", step)
    ELSE \/ /\ result' = NoResult
            /\ batches' = Append(batches, <<table, o.err>>)
            /\ IF o.err = "None"
               THEN /\ server' = BatchCommitted(o.srv, o.ses)
                    /\ session' = o.ses
                    /\ cont
               ELSE /\ server' = o.srv
                    /\ session' = BatchFailed(o.srv, o.ses)
                    /\ Raise(o.err, step)
         \/ /\ result' = NoResult
            /\ batches' = Append(batches, <<table, "OperationalError">>)
            /\ server' = server
            /\ session' = BatchFailed(server, session)
            /\ Raise("OperationalError", step)

\* fetchall(): the rows of the query executed last, handed to the caller.
fetchall(query, step, cont) ==
    IF cursor = "None"
    THEN UNCHANGED <<result, out>> /\ Raise("AttributeError", step)
    ELSE IF cursor = "closed" \/ ~result.ready
    THEN UNCHANGED <<result, out>> /\ Raise("InterfaceError", step)
    ELSE \/ /\ out' = Append(out, <<query, result.rows>>)
            /\ result' = NoResult
            /\ cont
         \/ /\ out' = out
            /\ result' = NoResult
            /\ Raise("OperationalError", step)

\* connect(), first statement: mysql.connector.connect(...)
connect ==
    /\ pc = "connect"
    /\ \/ /\ conn' = "open"
          /\ session' = FreshSession(server)
          /\ Goto("connect_cursor")
       \/ /\ UNCHANGED <<conn, session>>
          /\ Raise("InterfaceError", "connect")
    /\ UNCHANGED <<server, cursor, result, files, top, call, rooms, students,
                   out, logged, escaped, runs, calls, started, batches, pre,
                   prev>>

\* connect(), second statement: self.cursor = self.conn.cursor()
connect_cursor ==
    /\ pc = "connect_cursor"
    /\ \/ /\ cursor' = "open"
          /\ result' = NoResult
          /\ Return("connect")
       \/ /\ UNCHANGED <<cursor, result>>
          /\ Raise("OperationalError", "connect")
    /\ UNCHANGED <<server, session, conn, files, top, call, rooms, students,
                   out, logged, escaped, runs, calls, started, batches, pre,
                   prev>>

----------------------------------------------------------------------------
(* MySqlProcessor *)

\* What a statement of a method leaves alone.
frame ==
    <<conn, cursor, files, top, call, rooms, students, logged, escaped, runs,
      calls, started, pre, prev>>

\* What entering a method leaves alone.
entryFrame ==
    <<server, session, conn, cursor, result, top, logged, escaped, runs, prev>>

\* initialize_db(): _create_database, _use_database, _create_tables,
\* _create_indexes, one action per statement they execute.
initialize_db ==
    /\ CanCall("initialize")
    /\ Begin("initialize")
    /\ Goto("create_database")
    /\ UNCHANGED <<entryFrame, files, rooms, students, out, batches>>

create_database ==
    /\ pc = "create_database"
    /\ execute({CreateDatabase(server, session)}, "initialize",
               Goto("use_database"))
    /\ UNCHANGED <<frame, out, batches>>

use_database ==
    /\ pc = "use_database"
    /\ execute({UseDatabase(server, session)}, "initialize",
               Goto("create_room_table"))
    /\ UNCHANGED <<frame, out, batches>>

create_room_table ==
    /\ pc = "create_room_table"
    /\ execute({CreateRoomTable(server, session)}, "initialize",
               Goto("create_student_table"))
    /\ UNCHANGED <<frame, out, batches>>

create_student_table ==
    /\ pc = "create_student_table"
    /\ execute({CreateStudentTable(server, session)}, "initialize",
               Goto("create_index_room_id"))
    /\ UNCHANGED <<frame, out, batches>>

create_index_room_id ==
    /\ pc = "create_index_room_id"
    /\ execute({CreateIndex("idx_students_room_id", server, session)},
               "initialize", Goto("create_index_birthday"))
    /\ UNCHANGED <<frame, out, batches>>

create_index_birthday ==
    /\ pc = "create_index_birthday"
    /\ execute({CreateIndex("idx_students_birthday", server, session)},
               "initialize", Goto("create_index_room_sex"))
    /\ UNCHANGED <<frame, out, batches>>

create_index_room_sex ==
    /\ pc = "create_index_room_sex"
    /\ execute({CreateIndex("idx_students_room_sex", server, session)},
               "initialize", Return("initialize"))
    /\ UNCHANGED <<frame, out, batches>>

\* As ClearOrder, rooms before students.
ClearOrder_RoomsFirst == <<"rooms", "students">>

\* clear_tables(): the table deleted from first, then the other one.
ClearOrder == <<"students", "rooms">>

\* As Delete, on a session with autocommit on: each DELETE is durable at
\* once.
Delete_Autocommit(table, srv, ses) ==
    LET o == IF table = "students" THEN DeleteStudents(srv, ses)
             ELSE DeleteRooms(srv, ses)
    IN  [o EXCEPT !.srv = Commit(o.srv, o.ses)]

Delete(table, srv, ses) ==
    IF table = "students" THEN DeleteStudents(srv, ses)
    ELSE DeleteRooms(srv, ses)

clear_tables ==
    /\ CanCall("clear")
    /\ Begin("clear")
    /\ Goto("clear_first")
    /\ UNCHANGED <<entryFrame, files, rooms, students, out, batches>>

clear_first ==
    /\ pc = "clear_first"
    /\ execute({Delete(ClearOrder[1], server, session)}, "clear",
               Goto("clear_second"))
    /\ UNCHANGED <<frame, out, batches>>

clear_second ==
    /\ pc = "clear_second"
    /\ execute({Delete(ClearOrder[2], server, session)}, "clear",
               Return("clear"))
    /\ UNCHANGED <<frame, out, batches>>

\* JsonDataLoader.load: the exception it raises on these files, "None"
\* when both load.  Both files are opened and parsed (students first)
\* before any record is converted (students first).
LoadError(f) ==
    IF f.students.err \in {"FileNotFoundError", "ValueError"}
    THEN f.students.err
    ELSE IF f.rooms.err \in {"FileNotFoundError", "ValueError"}
    THEN f.rooms.err
    ELSE IF f.students.err # "None" THEN f.students.err
    ELSE f.rooms.err

\* run(): students, rooms = self.loader.load("students.json", "rooms.json")
load ==
    /\ CanCall("load")
    /\ top = "run"
    /\ Begin("load")
    /\ \E f \in IF files.read THEN {files}
                ELSE Files(RoomFiles, StudentFiles) :
          /\ files' = f
          /\ IF LoadError(f) = "None"
             THEN /\ rooms' = f.rooms.rows
                  /\ students' = f.students.rows
                  /\ Return("load")
             ELSE /\ UNCHANGED <<rooms, students>>
                  /\ Raise(LoadError(f), "load")
    /\ UNCHANGED <<entryFrame, out, batches>>

\* As InsertOrder, students before rooms.
InsertOrder_StudentsFirst == <<"students", "rooms">>

\* insert_data(students, rooms): the table whose batch goes first, then
\* the other one.
InsertOrder == <<"rooms", "students">>

Insert(table, srv, ses) ==
    IF table = "rooms" THEN InsertRooms(rooms, srv, ses)
    ELSE InsertStudents(students, srv, ses)

\* run() passes what it loaded; a client passes the lists of its fixture.
insert_data ==
    /\ CanCall("insert")
    /\ Begin("insert")
    /\ IF top = "client"
       THEN \E f \in IF files.read THEN {files}
                     ELSE Files(Loadable(RoomRows), Loadable(StudentRows)) :
               /\ files' = f
               /\ rooms' = f.rooms.rows
               /\ students' = f.students.rows
       ELSE UNCHANGED <<files, rooms, students>>
    /\ batches' = <<>>
    /\ Goto("insert_first")
    /\ UNCHANGED <<entryFrame, out>>

insert_first ==
    /\ pc = "insert_first"
    /\ executemany(InsertOrder[1], Insert(InsertOrder[1], server, session),
                   "insert", Goto("insert_second"))
    /\ UNCHANGED <<frame, out>>

insert_second ==
    /\ pc = "insert_second"
    /\ executemany(InsertOrder[2], Insert(InsertOrder[2], server, session),
                   "insert", Return("insert"))
    /\ UNCHANGED <<frame, out>>

\* retrieve_filtered_data(): the four _print_* methods, each an execute
\* and a fetchall.
retrieve_filtered_data ==
    /\ CanCall("report")
    /\ Begin("report")
    /\ out' = <<>>
    /\ Goto("student_counts_execute")
    /\ UNCHANGED <<entryFrame, files, rooms, students, batches>>

student_counts_execute ==
    /\ pc = "student_counts_execute"
    /\ execute(Select("student_counts", server, session), "report",
               Goto("student_counts_fetchall"))
    /\ UNCHANGED <<frame, out, batches>>

student_counts_fetchall ==
    /\ pc = "student_counts_fetchall"
    /\ fetchall("student_counts", "report", Goto("smallest_avg_age_execute"))
    /\ UNCHANGED <<frame, server, session, batches>>

smallest_avg_age_execute ==
    /\ pc = "smallest_avg_age_execute"
    /\ execute(Select("smallest_avg_age", server, session), "report",
               Goto("smallest_avg_age_fetchall"))
    /\ UNCHANGED <<frame, out, batches>>

smallest_avg_age_fetchall ==
    /\ pc = "smallest_avg_age_fetchall"
    /\ fetchall("smallest_avg_age", "report", Goto("largest_age_diff_execute"))
    /\ UNCHANGED <<frame, server, session, batches>>

largest_age_diff_execute ==
    /\ pc = "largest_age_diff_execute"
    /\ execute(Select("largest_age_diff", server, session), "report",
               Goto("largest_age_diff_fetchall"))
    /\ UNCHANGED <<frame, out, batches>>

largest_age_diff_fetchall ==
    /\ pc = "largest_age_diff_fetchall"
    /\ fetchall("largest_age_diff", "report", Goto("mixed_sex_rooms_execute"))
    /\ UNCHANGED <<frame, server, session, batches>>

mixed_sex_rooms_execute ==
    /\ pc = "mixed_sex_rooms_execute"
    /\ execute(Select("mixed_sex_rooms", server, session), "report",
               Goto("mixed_sex_rooms_fetchall"))
    /\ UNCHANGED <<frame, out, batches>>

mixed_sex_rooms_fetchall ==
    /\ pc = "mixed_sex_rooms_fetchall"
    /\ fetchall("mixed_sex_rooms", "report", Return("report"))
    /\ UNCHANGED <<frame, server, session, batches>>

\* main(): a new process builds its MySqlConnection and MySqlProcessor
\* and calls run(), which enters the with statement: __enter__ calls
\* connect().  Whatever an earlier process left open ended with it.
main ==
    /\ top = "run"
    /\ pc \in {"main", "done"}
    /\ runs < MaxRuns
    /\ runs' = runs + 1
    /\ prev' = IF pc = "done"
               THEN [reported |-> "Reported" \in Range(states),
                     rooms |-> server.rooms, students |-> server.students]
               ELSE prev
    /\ conn' = "None" /\ cursor' = "None" /\ result' = NoResult
    /\ session' = FreshSession(server)
    /\ rooms' = <<>> /\ students' = <<>> /\ out' = <<>> /\ batches' = <<>>
    /\ logged' = "None" /\ escaped' = FALSE
    /\ call' = "connect"
    /\ pre' = [server |-> server, session |-> FreshSession(server),
               conn |-> "None", cursor |-> "None"]
    /\ started' = <<"connect">>
    /\ states' = <<"Unconnected">>
    /\ error' = "None"
    /\ pc' = "connect"
    /\ UNCHANGED <<server, files, top, calls>>

\* run(): the with statement's __exit__ calls close(); then the except
\* clause if an exception is in flight, else run() returns.
exit ==
    /\ pc = "exit"
    /\ DoClose
    /\ started' = Append(started, "release")
    /\ error' = IF error # "None" THEN error ELSE close(cursor, conn).err
    /\ IF error' # "None"
       THEN pc' = "except" /\ states' = states
       ELSE pc' = "done" /\ states' = Append(states, "Closed")
    /\ UNCHANGED <<server, files, top, call, rooms, students, out, logged,
                   escaped, runs, calls, batches, pre, prev>>

\* run(): except Exception as e: print(...)
except_clause ==
    /\ pc = "except"
    /\ IF Catches(error)
       THEN logged' = error /\ escaped' = FALSE
       ELSE logged' = logged /\ escaped' = TRUE
    /\ pc' = "done"
    /\ states' = Append(states, "Closed")
    /\ UNCHANGED <<server, session, conn, cursor, result, files, top, call,
                   error, rooms, students, out, runs, calls, started,
                   batches, pre, prev>>

\* A client calls connect() on a connection that is not open.
call_connect ==
    /\ CanCall("connect")
    /\ top = "client"
    /\ conn # "open"
    /\ Begin("connect")
    /\ Goto("connect")
    /\ UNCHANGED <<entryFrame, files, rooms, students, out, batches>>

\* A client calls close().
call_close ==
    /\ CanCall("release")
    /\ top = "client"
    /\ Begin("release")
    /\ DoClose
    /\ error' = close(cursor, conn).err
    /\ pc' = "idle"
    /\ states' = states
    /\ UNCHANGED <<server, files, top, rooms, students, out, logged, escaped,
                   runs, batches, prev>>

Next ==
    \/ main
    \/ connect \/ connect_cursor
    \/ initialize_db
    \/ create_database \/ use_database
    \/ create_room_table \/ create_student_table
    \/ create_index_room_id \/ create_index_birthday \/ create_index_room_sex
    \/ clear_tables \/ clear_first \/ clear_second
    \/ load
    \/ insert_data \/ insert_first \/ insert_second
    \/ retrieve_filtered_data
    \/ student_counts_execute \/ student_counts_fetchall
    \/ smallest_avg_age_execute \/ smallest_avg_age_fetchall
    \/ largest_age_diff_execute \/ largest_age_diff_fetchall
    \/ mixed_sex_rooms_execute \/ mixed_sex_rooms_fetchall
    \/ exit \/ except_clause

\* The program, started up to MaxRuns times against the same server.
Spec == Init /\ [][Next]_vars

NextClient ==
    \/ call_connect \/ connect \/ connect_cursor
    \/ call_close
    \/ initialize_db
    \/ create_database \/ use_database
    \/ create_room_table \/ create_student_table
    \/ create_index_room_id \/ create_index_birthday \/ create_index_room_sex
    \/ clear_tables \/ clear_first \/ clear_second
    \/ insert_data \/ insert_first \/ insert_second

\* A client calling connect, close, initialize_db, clear_tables and
\* insert_data on one connection and one processor, in any order, up to
\* MaxCalls times.
SpecClient == InitClient /\ [][NextClient]_vars

----------------------------------------------------------------------------
(* The reports on tables of any contents *)

\* Rooms and students the tables may hold when the reports are run: three
\* rooms whose names need not differ (rooms.name is not UNIQUE), three
\* students in any of them.
ReportRoomIds == {1, 2, 3}
ReportRoomNames == {"A", "B"}
ReportStudentIds == {1, 2, 3}
ReportBirthdayOf(i) ==
    CASE i = 1 -> <<1990, 1, 1>>
      [] i = 2 -> <<2000, 1, 1>>
      [] OTHER -> <<1995, 6, 15>>
ReportSexOf(i) == IF i = 2 THEN "F" ELSE "M"

ReportRoomRows == {Room(i, n) : i \in ReportRoomIds, n \in ReportRoomNames}
ReportStudentRows ==
    {Student(i, StudentNameOf(i), r, ReportBirthdayOf(i), ReportSexOf(i)) :
        i \in ReportStudentIds, r \in ReportRoomIds}

\* Six rooms of different names, k students in room k, the first born in
\* 1990 and the others k years later: more rooms than the LIMIT of two of
\* the queries, and no two of them with the same count, average age or age
\* difference.
ManyRoomNames == <<"C", "D", "E", "F", "G", "H">>
ManyRooms == {Room(k, ManyRoomNames[k]) : k \in 1..(ReportLimit + 1)}
ManyStudents ==
    UNION {{Student(10 * k + j, "X", k,
                    IF j = 1 THEN <<1990, 1, 1>> ELSE <<1990 + k, 1, 1>>,
                    IF k = 2 /\ j = 2 THEN "F" ELSE "M") : j \in 1..k} :
           k \in 1..(ReportLimit + 1)}

\* The contents the two tables may have: what PRIMARY KEY and FOREIGN KEY
\* allow.
ReportTables ==
    {t \in [rooms : SUBSET ReportRoomRows, students : SUBSET ReportStudentRows] :
        Consistent(t.rooms, t.students)}
    \cup {[rooms |-> ManyRooms, students |-> ManyStudents]}

\* A client holding an open session on a provisioned database whose tables
\* hold any rows, about to call retrieve_filtered_data().
InitReports ==
    /\ \E t \in ReportTables :
          server = [exists |-> TRUE, tables |-> TableNames,
                    indexes |-> IndexNames,
                    rooms |-> t.rooms, students |-> t.students]
    /\ top = "client" /\ pc = "idle"
    /\ conn = "open" /\ cursor = "open" /\ result = NoResult
    /\ session = [FreshSession(server) EXCEPT !.selected = TRUE]
    /\ files = Unread
    /\ call = "None" /\ error = "None"
    /\ rooms = <<>> /\ students = <<>> /\ out = <<>>
    /\ logged = "None" /\ escaped = FALSE
    /\ runs = 0 /\ calls = 0
    /\ started = <<>> /\ states = <<>> /\ batches = <<>>
    /\ pre = Snapshot
    /\ prev = [reported |-> FALSE, rooms |-> server.rooms,
               students |-> server.students]

NextReports ==
    \/ retrieve_filtered_data
    \/ student_counts_execute \/ student_counts_fetchall
    \/ smallest_avg_age_execute \/ smallest_avg_age_fetchall
    \/ largest_age_diff_execute \/ largest_age_diff_fetchall
    \/ mixed_sex_rooms_execute \/ mixed_sex_rooms_fetchall

\* retrieve_filtered_data() called up to MaxCalls times on such tables.
SpecReports == InitReports /\ [][NextReports]_vars

----------------------------------------------------------------------------
(* The record loaders *)

\* A birthday as text: '%Y-%m-%dT%H:%M:%S.%f' text ("datetime"), or text
\* of a date alone ("date"), with the date and time of day it spells.
Text(form, date, time) == [form |-> form, date |-> date, time |-> time]
BirthdayTexts ==
    {Text("datetime", <<1990, 1, 1>>, <<0, 0, 0, 0>>),
     Text("datetime", <<2000, 3, 15>>, <<12, 30, 0, 0>>),
     Text("date", <<2000, 1, 1>>, <<0, 0, 0, 0>>)}

\* datetime.strptime(text, '%Y-%m-%dT%H:%M:%S.%f'): the datetime, or
\* ValueError when the text does not match the pattern.
strptime(text) ==
    IF text.form = "datetime"
    THEN [err |-> "None", value |-> [date |-> text.date, time |-> text.time]]
    ELSE [err |-> "ValueError", value |-> [date |-> <<0, 0, 0>>,
                                            time |-> <<0, 0, 0, 0>>]]

\* As date, with the day and the month exchanged.
date_DayMonth(dt) == <<dt.date[1], dt.date[3], dt.date[2]>>

\* datetime.date(): the calendar date, the time of day dropped.
date(dt) == dt.date

\* The text of an XML element holding a number: the digits of `value`
\* after `pad` zeros, or a word that is no number.
NumberText(kind, value, pad) == [kind |-> kind, value |-> value, pad |-> pad]

\* int(text): the number, or ValueError.
int(text) ==
    IF text.kind = "int" THEN [err |-> "None", value |-> text.value]
    ELSE [err |-> "ValueError: invalid literal for int()", value |-> 0]

\* A record of an input file: the values of its fields (JSON object keys,
\* XML child elements) and the fields it lacks.
Record(id, name, room, birthday, sex, missing) ==
    [id |-> id, name |-> name, room |-> room, birthday |-> birthday,
     sex |-> sex, missing |-> missing]

\* An input file: not there, not parseable, or a list of records.
Document(kind, items) == [kind |-> kind, items |-> items]
Documents(S) ==
    {Document("missing", <<>>), Document("malformed", <<>>)}
    \cup {Document("list", b) : b \in Batches(S)}

JsonStudentRecords ==
    {Record(i, StudentNameOf(i), i, b, SexOf(i), {}) :
        i \in StudentIds, b \in BirthdayTexts}
    \cup {Record(1, "X", 1, Text("datetime", <<1990, 1, 1>>, <<0, 0, 0, 0>>),
                 "M", {"room"})}
JsonRoomRecords ==
    {Record(i, RoomNameOf(i), 0, 0, 0, {}) : i \in RoomIds}
    \cup {Record(1, "A", 0, 0, 0, {"name"})}

XmlStudentRecords ==
    {Record(NumberText("int", i, i - 1), StudentNameOf(i),
            NumberText("int", i, 0), b, SexOf(i), {}) :
        i \in StudentIds, b \in {t \in BirthdayTexts : t.date[1] = 1990 \/ t.form = "date"}}
    \cup {Record(NumberText("int", 1, 0), "X", NumberText("int", 1, 0),
                 Text("date", <<2000, 1, 1>>, <<0, 0, 0, 0>>), "M", {"sex"}),
          Record(NumberText("word", 0, 0), "X", NumberText("int", 1, 0),
                 Text("date", <<2000, 1, 1>>, <<0, 0, 0, 0>>), "M", {})}
XmlRoomRecords ==
    {Record(NumberText("int", i, 0), RoomNameOf(i), 0, 0, 0, {}) : i \in RoomIds}
    \cup {Record(NumberText("int", 1, 0), "A", 0, 0, 0, {"name"})}

\* What load returns: the exception it raises ("None": it returned) and
\* the two lists.
Loaded(e, ss, rs) == [err |-> e, students |-> ss, rooms |-> rs]

\* JsonDataLoader.load.load_json: open(path), json.load(f)
load_json(doc) ==
    CASE doc.kind = "missing" -> [err |-> "FileNotFoundError", items |-> <<>>]
      [] doc.kind = "malformed" -> [err |-> "ValueError", items |-> <<>>]
      [] OTHER -> [err |-> "None", items |-> doc.items]

\* Student(s["id"], s["name"], s["room"],
\*         datetime.strptime(s["birthday"], ...).date(), s["sex"]),
\* the arguments evaluated in that order.
JsonStudent(s) ==
    LET none == Student(0, "", 0, <<0, 0, 0>>, "")
    IN  IF s.missing \cap {"id", "name", "room", "birthday"} # {}
        THEN [err |-> "KeyError", value |-> none]
        ELSE IF strptime(s.birthday).err # "None"
        THEN [err |-> strptime(s.birthday).err, value |-> none]
        ELSE IF "sex" \in s.missing
        THEN [err |-> "KeyError", value |-> none]
        ELSE [err |-> "None",
              value |-> Student(s.id, s.name, s.room,
                                date(strptime(s.birthday).value), s.sex)]

\* Room(r["id"], r["name"])
JsonRoom(r) ==
    IF r.missing \cap {"id", "name"} # {}
    THEN [err |-> "KeyError", value |-> Room(0, "")]
    ELSE [err |-> "None", value |-> Room(r.id, r.name)]

\* [Student(...) for s in students_json]: the first exception ends it.
RECURSIVE JsonStudents(_)
JsonStudents(items) ==
    IF items = <<>> THEN [err |-> "None", list |-> <<>>]
    ELSE LET h == JsonStudent(Head(items))
         IN  IF h.err # "None" THEN [err |-> h.err, list |-> <<>>]
             ELSE LET t == JsonStudents(Tail(items))
                  IN  IF t.err # "None" THEN t
                      ELSE [err |-> "None", list |-> <<h.value>> \o t.list]

\* [Room(...) for r in rooms_json]
RECURSIVE JsonRooms(_)
JsonRooms(items) ==
    IF items = <<>> THEN [err |-> "None", list |-> <<>>]
    ELSE LET h == JsonRoom(Head(items))
         IN  IF h.err # "None" THEN [err |-> h.err, list |-> <<>>]
             ELSE LET t == JsonRooms(Tail(items))
                  IN  IF t.err # "None" THEN t
                      ELSE [err |-> "None", list |-> <<h.value>> \o t.list]

\* JsonDataLoader.load(students_path, rooms_path): both files are read,
\* then the students are built, then the rooms.
JsonDataLoader_load(students_doc, rooms_doc) ==
    LET sj == load_json(students_doc)
        rj == load_json(rooms_doc)
        ss == JsonStudents(sj.items)
        rs == JsonRooms(rj.items)
    IN  IF sj.err # "None" THEN Loaded(sj.err, <<>>, <<>>)
        ELSE IF rj.err # "None" THEN Loaded(rj.err, <<>>, <<>>)
        ELSE IF ss.err # "None" THEN Loaded(ss.err, <<>>, <<>>)
        ELSE IF rs.err # "None" THEN Loaded(rs.err, <<>>, <<>>)
        ELSE Loaded("None", ss.list, rs.list)

\* ET.parse(xml_path): the tree, FileNotFoundError, or ET.ParseError when
\* the document is not well-formed.
ET_parse(doc) ==
    CASE doc.kind = "missing" -> [err |-> "FileNotFoundError", items |-> <<>>]
      [] doc.kind = "malformed" -> [err |-> "ParseError", items |-> <<>>]
      [] OTHER -> [err |-> "None", items |-> doc.items]

\* As OnParseError, with the parser's exception left to propagate.
OnParseError_Uncaught == "ParseError"

\* except ET.ParseError: raise ValueError(f"Error parsing XML file: ...")
OnParseError == "ValueError: Error parsing XML file"

\* Student(id=int(el.find("id").text), name=el.find("name").text,
\*         room_id=int(el.find("room").text),
\*         birthday=el.find("birthday").text, sex=el.find("sex").text):
\* find() of a child that is not there is None, which has no .text.
XmlStudent(el) ==
    LET none == Student(0, "", 0, <<0, 0, 0>>, "")
        fail(e) == [err |-> e, value |-> none]
    IN  IF "id" \in el.missing THEN fail("AttributeError")
        ELSE IF int(el.id).err # "None" THEN fail(int(el.id).err)
        ELSE IF "name" \in el.missing THEN fail("AttributeError")
        ELSE IF "room" \in el.missing THEN fail("AttributeError")
        ELSE IF int(el.room).err # "None" THEN fail(int(el.room).err)
        ELSE IF el.missing \cap {"birthday", "sex"} # {}
        THEN fail("AttributeError")
        ELSE [err |-> "None",
              value |-> Student(int(el.id).value, el.name, int(el.room).value,
                                el.birthday, el.sex)]

\* Room(id=int(el.find("id").text), name=el.find("name").text)
XmlRoom(el) ==
    IF "id" \in el.missing THEN [err |-> "AttributeError", value |-> Room(0, "")]
    ELSE IF int(el.id).err # "None"
    THEN [err |-> int(el.id).err, value |-> Room(0, "")]
    ELSE IF "name" \in el.missing
    THEN [err |-> "AttributeError", value |-> Room(0, "")]
    ELSE [err |-> "None", value |-> Room(int(el.id).value, el.name)]

\* for student_el in tree.getroot(): students.append(Student(...))
RECURSIVE XmlStudents(_)
XmlStudents(items) ==
    IF items = <<>> THEN [err |-> "None", list |-> <<>>]
    ELSE LET h == XmlStudent(Head(items))
         IN  IF h.err # "None" THEN [err |-> h.err, list |-> <<>>]
             ELSE LET t == XmlStudents(Tail(items))
                  IN  IF t.err # "None" THEN t
                      ELSE [err |-> "None", list |-> <<h.value>> \o t.list]

\* for room_el in tree.getroot(): rooms.append(Room(...))
RECURSIVE XmlRooms(_)
XmlRooms(items) ==
    IF items = <<>> THEN [err |-> "None", list |-> <<>>]
    ELSE LET h == XmlRoom(Head(items))
         IN  IF h.err # "None" THEN [err |-> h.err, list |-> <<>>]
             ELSE LET t == XmlRooms(Tail(items))
                  IN  IF t.err # "None" THEN t
                      ELSE [err |-> "None", list |-> <<h.value>> \o t.list]

\* XmlDataLoader.load.parse_students: the try block and its except clause.
parse_students(doc) ==
    LET tree == ET_parse(doc)
    IN  IF tree.err = "ParseError" THEN [err |-> OnParseError, list |-> <<>>]
        ELSE IF tree.err # "None" THEN [err |-> tree.err, list |-> <<>>]
        ELSE XmlStudents(tree.items)

\* XmlDataLoader.load.parse_rooms
parse_rooms(doc) ==
    LET tree == ET_parse(doc)
    IN  IF tree.err = "ParseError" THEN [err |-> OnParseError, list |-> <<>>]
        ELSE IF tree.err # "None" THEN [err |-> tree.err, list |-> <<>>]
        ELSE XmlRooms(tree.items)

\* XmlDataLoader.load(students_path, rooms_path)
XmlDataLoader_load(students_doc, rooms_doc) ==
    LET ss == parse_students(students_doc)
        rs == parse_rooms(rooms_doc)
    IN  IF ss.err # "None" THEN Loaded(ss.err, <<>>, <<>>)
        ELSE IF rs.err # "None" THEN Loaded(rs.err, <<>>, <<>>)
        ELSE Loaded("None", ss.list, rs.list)

\* The two files a loader is given: any two documents.
JsonInputs ==
    [read : {FALSE}, rooms : Documents(JsonRoomRecords),
     students : Documents(JsonStudentRecords)]
XmlInputs ==
    [read : {FALSE}, rooms : Documents(XmlRoomRecords),
     students : Documents(XmlStudentRecords)]

\* A caller holding one of the two loaders and two files, about to call
\* load(students_path, rooms_path).
InitLoader ==
    /\ \/ top = "JsonDataLoader" /\ files \in JsonInputs
       \/ top = "XmlDataLoader" /\ files \in XmlInputs
    /\ pc = "idle"
    /\ server = EmptyServer
    /\ session = FreshSession(server)
    /\ conn = "None" /\ cursor = "None" /\ result = NoResult
    /\ call = "None" /\ error = "None"
    /\ rooms = <<>> /\ students = <<>> /\ out = <<>>
    /\ logged = "None" /\ escaped = FALSE
    /\ runs = 0 /\ calls = 0
    /\ started = <<>> /\ states = <<>> /\ batches = <<>>
    /\ pre = Snapshot
    /\ prev = [reported |-> FALSE, rooms |-> server.rooms,
               students |-> server.students]

\* What a call of load leaves alone.
loadFrame ==
    <<server, session, conn, cursor, result, top, pc, out, logged, escaped,
      runs, calls, started, states, batches, pre, prev>>

\* The effect of load on its caller: the lists it returns, or its exception.
Load(r) ==
    /\ files' = [files EXCEPT !.read = TRUE]
    /\ call' = "load"
    /\ error' = r.err
    /\ students' = r.students
    /\ rooms' = r.rooms
    /\ UNCHANGED loadFrame

json_load ==
    /\ top = "JsonDataLoader"
    /\ ~files.read
    /\ Load(JsonDataLoader_load(files.students, files.rooms))

xml_load ==
    /\ top = "XmlDataLoader"
    /\ ~files.read
    /\ Load(XmlDataLoader_load(files.students, files.rooms))

NextLoader == json_load \/ xml_load

\* load called once on any two files, by either loader.
SpecLoader == InitLoader /\ [][NextLoader]_vars

----------------------------------------------------------------------------
(* Claims *)

Last(seq) == seq[Len(seq)]
\* seq without a trailing x.
Without(seq, x) ==
    IF seq # <<>> /\ Last(seq) = x THEN SubSeq(seq, 1, Len(seq) - 1) ELSE seq
IsPrefix(a, b) == Len(a) <= Len(b) /\ a = SubSeq(b, 1, Len(a))

\* C1: when run() has returned, whichever step failed or none, the session
\* and the cursor that were established during the run have been released.
C1_ReleasedWhenRunReturns ==
    pc = "done" => conn # "open" /\ cursor # "open"

\* C2: once a step of run() has failed, no further step is started and
\* none is started again (at most the release follows); control is in the
\* release, in the except clause or past them; when run() has returned
\* the failure has been printed and no exception has left run().
C2_FailureShortCircuits ==
    /\ [](/\ \A i, j \in DOMAIN started : started[i] = started[j] => i = j
          /\ (top = "run" /\ error # "None") => pc \in {"exit", "except", "done"}
          /\ (pc = "done" /\ error # "None") => logged = error
          /\ ~escaped)
    /\ [][(top = "run" /\ error # "None" /\ runs' = runs) =>
            /\ error' = error
            /\ started' \in {started, Append(started, "release")}]_vars

C2_Witness ==
    /\ pc = "done"
    /\ error = "ForeignKeyViolation"
    /\ logged = "ForeignKeyViolation"
    /\ started = <<"connect", "initialize", "clear", "load", "insert", "release">>
    /\ states = <<"Unconnected", "Connected", "SchemaReady", "TablesClear",
                  "DataLoaded", "Closed">>

\* C3: the steps of a run start in the order connect, initialize schema,
\* clear tables, load, insert, report, with the release last; a step starts
\* only when every earlier step has returned; and the states gone through
\* are a prefix of Unconnected .. Reported, followed by Closed at the end.
C3_StepsInOrder ==
    LET body == Without(started, "release")
        gone == Without(states, "Closed")
    IN  top = "run" =>
        /\ IsPrefix(body, <<"connect", "initialize", "clear", "load",
                            "insert", "report">>)
        /\ IsPrefix(gone, <<"Unconnected", "Connected", "SchemaReady",
                            "TablesClear", "DataLoaded", "DataInserted",
                            "Reported">>)
        /\ Len(body) <= Len(gone)
        /\ Len(gone) <= Len(body) + 1
        /\ (started # body) => Len(gone) >= 2
        /\ (pc = "done") <=> (states # gone)

C3_Witness ==
    /\ pc = "done"
    /\ started = <<"connect", "initialize", "clear", "load", "insert",
                   "report", "release">>
    /\ states = <<"Unconnected", "Connected", "SchemaReady", "TablesClear",
                  "DataLoaded", "DataInserted", "Reported", "Closed">>

\* The rows of the batch executemany was given for a table.
BatchOf(table) == IF table = "rooms" THEN Range(rooms) ELSE Range(students)

\* C4: executemany is atomic per batch.  When the batch fails the error is
\* raised to the caller, nothing of the batch is durable and the session
\* sees the rows last committed again, so no row the batch inserted is
\* left; when every row succeeds the rows of the batch, added to what the
\* session saw, are committed together.
C4_BatchAtomic ==
    [][batches' # batches /\ batches' # <<>> =>
        LET b == Last(batches')
        IN  IF b[2] # "None"
            THEN /\ error' = b[2]
                 /\ server' = server
                 /\ session'.rooms = server.rooms
                 /\ session'.students = server.students
                 /\ \A r \in BatchOf(b[1]) :
                        r \in session'[b[1]] => r \in server[b[1]]
            ELSE /\ error' = "None"
                 /\ BatchOf(b[1]) \subseteq server'[b[1]]
                 /\ server'[b[1]] = session[b[1]] \cup BatchOf(b[1])
                 /\ session'.rooms = server'.rooms
                 /\ session'.students = server'.students]_vars

\* A room batch of two rows failed on its second row, and the rows the
\* session had deleted before the batch are back with the rollback.
C4_Witness ==
    /\ call = "insert"
    /\ batches = <<<<"rooms", "DuplicateEntry">>>>
    /\ Len(rooms) = 2
    /\ error = "DuplicateEntry"
    /\ pre.server.rooms # {}
    /\ pre.session.rooms = {}
    /\ session.rooms = server.rooms
    /\ server.rooms = pre.server.rooms

\* C5: when insert_data is given a student whose room reference is the id
\* of no room, the student batch fails with a constraint violation (unless
\* the server fails first for reasons of its own), the students table is as
\* it was when the call began and holds no student of the batch, and the
\* rooms of the call stay committed.
C5_DanglingStudentFailsBatch ==
    (/\ call = "insert"
     /\ Len(batches) = 2
     /\ \E s \in Range(students) : s.room_id \notin Ids(server.rooms))
    => /\ batches[2][2] \in
            {"ForeignKeyViolation", "DuplicateEntry", "OperationalError"}
       /\ error = batches[2][2]
       /\ server.students = pre.session.students
       /\ session.students = server.students
       /\ Range(students) \cap server.students = {}
       /\ Range(rooms) \subseteq server.rooms
       /\ session.rooms = server.rooms

C5_Witness ==
    /\ call = "insert"
    /\ batches = <<<<"rooms", "None">>, <<"students", "ForeignKeyViolation">>>>
    /\ Len(students) = 2
    /\ students[1].room_id \in Ids(server.rooms)
    /\ server.rooms # {}
    /\ server.students = {}
    /\ pc = "done"

\* C6: insert_data attempts the room batch first and the student batch
\* second, the student batch only once the room batch is committed, and
\* not at all when the room batch failed.
C6_RoomsBeforeStudents ==
    /\ Len(batches) <= 2
    /\ Len(batches) >= 1 => batches[1][1] = "rooms"
    /\ Len(batches) = 2 => batches[1][2] = "None" /\ batches[2][1] = "students"
    /\ (pc = "insert_second" /\ cursor = "open") =>
            /\ batches = <<<<"rooms", "None">>>>
            /\ Range(rooms) \subseteq server.rooms
            /\ session.rooms = server.rooms

\* The room batch failed and run() ended without a student batch.
C6_Witness ==
    /\ pc = "done"
    /\ call = "insert"
    /\ Len(batches) = 1
    /\ batches[1][2] = "DuplicateEntry"
    /\ students # <<>>

\* Database, both tables and the three indexes are there.
Provisioned(srv) ==
    srv.exists /\ srv.tables = TableNames /\ srv.indexes = IndexNames

Schema(srv) == <<srv.exists, srv.tables, srv.indexes>>

\* C7: initialize_db is idempotent: called on an open session against a
\* target that is already provisioned, it raises no duplicate-object error
\* and leaves the schema as it was.
C7_InitializeIdempotent ==
    (call = "initialize" /\ pre.cursor = "open" /\ Provisioned(pre.server))
    => /\ error # "DuplicateKeyName"
       /\ Schema(server) = Schema(pre.server)

\* C8: a run that follows a run which reached Reported, on the same input
\* files and the database that run left, reaches Reported too, unless the
\* server fails for reasons of its own, and leaves the same rows.
C8_RerunCompletes ==
    (/\ pc = "done"
     /\ prev.reported
     /\ error \notin {"InterfaceError", "OperationalError"})
    => /\ "Reported" \in Range(states)
       /\ server.rooms = prev.rooms
       /\ server.students = prev.students

\* C9: clear_tables deletes from students first and from rooms second; on
\* an open session with both tables it never fails on the foreign key, and
\* when it has returned the session sees both tables empty and the
\* occupancy query returns no row.
C9_ClearEmptiesBothTables ==
    /\ (call = "clear" /\ pre.cursor = "open") => error # "ForeignKeyViolation"
    /\ (pc = "clear_second" /\ error = "None" /\ cursor = "open")
            => session.students = {}
    /\ (call = "clear" /\ error = "None" /\ pc \in {"idle", "body"})
            => /\ session.students = {}
               /\ session.rooms = {}
               /\ StudentCounts(session) = {<<>>}

\* clear_tables has returned on tables that held rooms with students.
C9_Witness ==
    /\ call = "clear"
    /\ error = "None"
    /\ pc = "idle"
    /\ pre.session.rooms # {}
    /\ pre.session.students # {}
    /\ StudentCounts(pre.session) # {<<>>}
    /\ session.rooms = {}

\* C10: close() on a connection that was never connected, or that is
\* closed already, raises nothing and changes nothing; on any connection
\* it raises nothing and leaves neither the session nor the cursor open.
C10_CloseIsSafe ==
    (top = "client" /\ call = "release")
    => /\ error = "None"
       /\ conn # "open" /\ cursor # "open"
       /\ (pre.conn # "open" /\ pre.cursor # "open") =>
            /\ conn = pre.conn
            /\ cursor = pre.cursor
            /\ server = pre.server
            /\ session = pre.session

\* close() was called on a connection already closed.
C10_WitnessClosedTwice ==
    /\ call = "release"
    /\ pre.conn = "closed"
    /\ pre.cursor = "closed"
    /\ pc = "idle"
    /\ error = "None"

----------------------------------------------------------------------------
(* Claims about the reports *)

\* The students assigned to a room, by the room's id, and the rooms that
\* have at least one.
Occupants(r, ses) == {s \in ses.students : s.room_id = r.id}
Occupied(ses) == {r \in ses.rooms : Occupants(r, ses) # {}}

\* The row sequences retrieve_filtered_data got back for a query.
RowsOf(query) == {out[i][2] : i \in {j \in DOMAIN out : out[j][1] = query}}

\* The rooms of the spec's example and their two students.
ExampleRooms == {Room(1, "A"), Room(2, "B")}
ExampleStudents ==
    {Student(1, "X", 1, <<1990, 1, 1>>, "M"),
     Student(2, "Y", 1, <<2000, 1, 1>>, "F")}
ExampleTables ==
    session.rooms = ExampleRooms /\ session.students = ExampleStudents

OccupancyRow(r, ses) == <<r.name, Cardinality(Occupants(r, ses))>>

\* C11: the occupancy report has one row for every room with at least one
\* student and for no other room, holding the room's name and the count of
\* its students, in descending order of count; on the example tables it is
\* exactly <<"A", 2>>.
C11_OccupancyPerRoom ==
    \A rows \in RowsOf("student_counts") :
        /\ Len(rows) = Cardinality(Occupied(session))
        /\ \A i \in DOMAIN rows :
              \E r \in Occupied(session) : rows[i] = OccupancyRow(r, session)
        /\ \A r \in Occupied(session) :
              Cardinality({i \in DOMAIN rows : rows[i] = OccupancyRow(r, session)})
              = Cardinality({q \in Occupied(session) :
                                OccupancyRow(q, session) = OccupancyRow(r, session)})
        /\ \A i, j \in DOMAIN rows : i < j => rows[i][2] >= rows[j][2]
        /\ ExampleTables => rows = <<<<"A", 2>>>>

RECURSIVE CountSum(_)
CountSum(rows) ==
    IF rows = <<>> THEN 0 ELSE Head(rows)[2] + CountSum(Tail(rows))

UniqueIds(list) ==
    \A i, j \in DOMAIN list : list[i].id = list[j].id => i = j

\* The rooms and students insert_data is given are sets of records (no id
\* twice) and every student's room reference is the id of one of the rooms.
ValidInput ==
    /\ UniqueIds(rooms)
    /\ UniqueIds(students)
    /\ \A s \in Range(students) : s.room_id \in Ids(Range(rooms))

\* C12: in a run, insert_data given rooms R and students S that reference
\* only ids of R succeeds (unless the server fails for reasons of its own),
\* and afterwards the counts of the occupancy query, and of the occupancy
\* report the run produces, sum to len(S).
C12_CountsSumToStudents ==
    top = "run" =>
    /\ (/\ call = "insert"
        /\ pc \notin {"insert_first", "insert_second"}
        /\ ValidInput)
       => error \in {"None", "OperationalError"}
    /\ (call = "insert" /\ pc = "body")
       => /\ Len(batches) = 2
          /\ \A rows \in StudentCounts(session) : CountSum(rows) = Len(students)
    /\ \A rows \in RowsOf("student_counts") : CountSum(rows) = Len(students)

\* Two students in two different rooms were inserted and counted.
C12_Witness ==
    /\ top = "run"
    /\ call = "report"
    /\ ValidInput
    /\ Len(rooms) = 2
    /\ Len(students) = 2
    /\ students[1].room_id # students[2].room_id
    /\ \E rows \in RowsOf("student_counts") : Len(rows) = 2 /\ CountSum(rows) = 2

\* A room is mixed when two of the students assigned to it, by its id,
\* have different sex codes.
Mixed(r, ses) ==
    \E a, b \in Occupants(r, ses) : a.sex # b.sex

\* C13: the mixed-occupancy report lists exactly the rooms that are mixed:
\* one row, holding the room's name, for every room two of whose own
\* students have different sex codes, and no other row; on the example
\* tables it is exactly <<"A">>.
C13_MixedRoomsListed ==
    \A rows \in RowsOf("mixed_sex_rooms") :
        LET mixed == {r \in session.rooms : Mixed(r, session)}
        IN  /\ Len(rows) = Cardinality(mixed)
            /\ \A i \in DOMAIN rows : \E r \in mixed : rows[i] = <<r.name>>
            /\ \A r \in mixed :
                  Cardinality({i \in DOMAIN rows : rows[i] = <<r.name>>})
                  = Cardinality({q \in mixed : q.name = r.name})
            /\ ExampleTables => rows = <<<<"A">>>>

\* Whole years from date a to a later date b: the most years that can be
\* added to a without passing b.
WholeYears(a, b) ==
    CHOOSE n \in 0..(b[1] - a[1]) :
        /\ ~DateLess(b, <<a[1] + n, a[2], a[3]>>)
        /\ n < b[1] - a[1] => DateLess(b, <<a[1] + n + 1, a[2], a[3]>>)

\* The age spread of a room: whole years between the birthdays of its
\* oldest and its youngest student.
Spread(r, ses) ==
    LET days == {s.birthday : s \in Occupants(r, ses)}
        oldest == CHOOSE a \in days : \A b \in days : ~DateLess(b, a)
        youngest == CHOOSE a \in days : \A b \in days : ~DateLess(a, b)
    IN  WholeYears(oldest, youngest)

SpreadRow(r, ses) == <<r.name, Spread(r, ses)>>

\* C14: the age-spread report has at most 5 rows, one per room that has
\* students (all of them when they are 5 or fewer), each holding the room's
\* name and the whole years between its oldest and its youngest student, in
\* descending order of that difference; a room with a larger difference
\* than a listed one is listed; on the example tables it is <<"A", 10>>.
C14_WidestSpreadTop5 ==
    \A rows \in RowsOf("largest_age_diff") :
        LET occ == Occupied(session)
            n == IF Cardinality(occ) <= 5 THEN Cardinality(occ) ELSE 5
        IN  /\ Len(rows) = n
            /\ \A i \in DOMAIN rows :
                  \E r \in occ : rows[i] = SpreadRow(r, session)
            /\ \A r \in occ :
                  Cardinality({i \in DOMAIN rows : rows[i] = SpreadRow(r, session)})
                  <= Cardinality({q \in occ :
                                    SpreadRow(q, session) = SpreadRow(r, session)})
            /\ \A i, j \in DOMAIN rows : i < j => rows[i][2] >= rows[j][2]
            /\ \A r \in occ : \A i \in DOMAIN rows :
                  Spread(r, session) > rows[i][2]
                  => \E j \in DOMAIN rows : rows[j] = SpreadRow(r, session)
            /\ ExampleTables => rows = <<<<"A", 10>>>>

\* The four reports in the order retrieve_filtered_data asks for them.
ReportOrder ==
    <<"student_counts", "smallest_avg_age", "largest_age_diff",
      "mixed_sex_rooms">>

\* The row sequences a report's query may return on the tables as ses
\* sees them.
AnswersTo(query, ses) ==
    CASE query = "student_counts" -> StudentCounts(ses)
      [] query = "smallest_avg_age" -> SmallestAvgAge(ses)
      [] query = "largest_age_diff" -> LargestAgeDiff(ses)
      [] OTHER -> MixedSexRooms(ses)

\* C15: the report step is read-only and its reports are independent:
\* whatever the tables hold, during and after retrieve_filtered_data the
\* committed rows and the rows the session sees are those of when it was
\* called, and the rows handed back for each report are an answer to that
\* report's own query on those tables, the reports coming in their order.
C15_ReportsReadOnly ==
    call = "report" =>
    /\ server.rooms = pre.server.rooms
    /\ server.students = pre.server.students
    /\ session.rooms = pre.session.rooms
    /\ session.students = pre.session.students
    /\ Len(out) <= Len(ReportOrder)
    /\ \A i \in DOMAIN out :
          /\ out[i][1] = ReportOrder[i]
          /\ out[i][2] \in AnswersTo(ReportOrder[i], pre.session)

\* All four reports came back on tables with a mixed room.
C15_Witness ==
    /\ call = "report"
    /\ pc = "idle"
    /\ error = "None"
    /\ Len(out) = 4
    /\ Cardinality(session.rooms) = 3
    /\ out[4][2] # <<>>
    /\ out[1][2] # out[3][2]

----------------------------------------------------------------------------
(* Claims about the loaders *)

\* The loader's descriptive data-format error.
DataFormatError == "ValueError: Error parsing XML file"

Malformed(doc) == doc.kind = "malformed"

\* An XML student record with every child element and numbers where
\* numbers are expected, and a students file that holds only such records.
ValidXmlStudent(el) ==
    el.missing = {} /\ el.id.kind = "int" /\ el.room.kind = "int"
StudentsFileParses(doc) ==
    doc.kind = "list" /\ \A i \in DOMAIN doc.items : ValidXmlStudent(doc.items[i])

\* C16, as stated: when either input file of the XML loader is not
\* well-formed XML, load fails with the loader's descriptive data-format
\* error and returns no records.
C16_AnyMalformedFileIsDataFormatError ==
    (/\ top = "XmlDataLoader"
     /\ files.read
     /\ Malformed(files.students) \/ Malformed(files.rooms))
    => /\ error = DataFormatError
       /\ students = <<>> /\ rooms = <<>>

\* C16, amended: the parser's exception never leaves the XML loader; when
\* either file is not well-formed load fails and returns no records; it
\* fails with the descriptive data-format error when the students file is
\* the malformed one, or when the rooms file is and the students file was
\* parsed; when the students file, read first, fails on an error of its
\* own (no such file, a record without a child element, an id that is no
\* number) that error is the one raised, whatever the rooms file holds.
C16_MalformedXmlIsDataFormatError ==
    (top = "XmlDataLoader" /\ files.read) =>
    /\ error # "ParseError"
    /\ (Malformed(files.students) \/ Malformed(files.rooms))
       => error # "None" /\ students = <<>> /\ rooms = <<>>
    /\ Malformed(files.students) => error = DataFormatError
    /\ (Malformed(files.rooms) /\ StudentsFileParses(files.students))
       => error = DataFormatError
    /\ (/\ Malformed(files.rooms)
        /\ ~Malformed(files.students)
        /\ ~StudentsFileParses(files.students))
       => error \in {"FileNotFoundError", "AttributeError",
                     "ValueError: invalid literal for int()"}

\* Two student records were parsed and the rooms file is not well-formed.
C16_Witness ==
    /\ top = "XmlDataLoader"
    /\ files.read
    /\ Malformed(files.rooms)
    /\ StudentsFileParses(files.students)
    /\ Len(files.students.items) = 2
    /\ error = DataFormatError
    /\ students = <<>>

\* A valid student record of a JSON file: every key, and birthday text of
\* the pattern.  The values it holds, the birthdate being the calendar
\* date its text spells.
ValidJsonStudent(s) == s.missing = {} /\ s.birthday.form = "datetime"
JsonValues(s) ==
    [id |-> s.id, name |-> s.name, room |-> s.room,
     birthdate |-> s.birthday.date, sex |-> s.sex]
XmlValues(el) ==
    [id |-> el.id.value, name |-> el.name, room |-> el.room.value,
     birthdate |-> el.birthday.date, sex |-> el.sex]

\* A loaded Student written out again, field by field: by the JSON loader
\* (birthday is a date), by the XML loader (birthday is the text it read).
JsonSerialized(st) ==
    [id |-> st.id, name |-> st.name, room |-> st.room_id,
     birthdate |-> st.birthday, sex |-> st.sex]
XmlSerialized(st) ==
    [id |-> st.id, name |-> st.name, room |-> st.room_id,
     birthdate |-> st.birthday.date, sex |-> st.sex]

\* The rooms file loads: a list of records none of which lacks a field.
RoomsFileLoads(doc) ==
    doc.kind = "list" /\ \A i \in DOMAIN doc.items : doc.items[i].missing = {}

----------------------------------------------------------------------------
(* Claims about a run and the committed rows *)

\* The room batch of the run's insert_data has been committed.
RoomBatchCommitted == batches # <<>> /\ batches[1] = <<"rooms", "None">>

\* The committed rows are those the run found when it started.
AsFound ==
    server.rooms = prev.rooms /\ server.students = prev.students

\* C18: from the start of a run until its room batch commits, the
\* committed rows of both tables are those the run found: clear_tables
\* leaves the session seeing empty tables and the committed rows alone,
\* and a run that ends before the room batch commits (the load fails, the
\* room batch is rolled back) leaves the tables as they were before it.
C18_ClearNotDurableBeforeRoomCommit ==
    top = "run" =>
    /\ ~RoomBatchCommitted => AsFound
    /\ (call = "clear" /\ pc = "body")
       => session.rooms = {} /\ session.students = {} /\ AsFound
    /\ (pc = "done" /\ "TablesClear" \in Range(states) /\ ~RoomBatchCommitted)
       => AsFound /\ error # "None"

\* The run cleared tables that held rooms and students, the load failed,
\* the run is over and the rows are still there.
C18_WitnessLoadFailed ==
    /\ top = "run"
    /\ pc = "done"
    /\ call = "load"
    /\ error \in LoadErrors
    /\ pre.session.rooms = {}
    /\ pre.session.students = {}
    /\ server.rooms # {}
    /\ server.students # {}
    /\ AsFound

\* The tables holding exactly the records the run loaded.
LoadedTables == [rooms |-> Range(rooms), students |-> Range(students)]

\* C19: once a run's insert has returned, and so whenever the run reaches
\* Reported, the committed Room table holds exactly the rooms the run
\* loaded and the committed Student table exactly the students it loaded,
\* whatever the tables held when the run started; the session sees the
\* same rows and each report is an answer of its query on that data.
C19_ReportedOnLoadedData ==
    (top = "run" /\ "DataInserted" \in Range(states)) =>
    /\ server.rooms = LoadedTables.rooms
    /\ server.students = LoadedTables.students
    /\ session.rooms = server.rooms
    /\ session.students = server.students
    /\ \A i \in DOMAIN out :
          out[i][2] \in AnswersTo(ReportOrder[i], LoadedTables)
    /\ "Reported" \in Range(states) => Len(out) = Len(ReportOrder)

\* A run reached Reported on tables that held other rooms and students
\* when it started.
C19_Witness ==
    /\ top = "run"
    /\ pc = "done"
    /\ "Reported" \in Range(states)
    /\ prev.rooms # {}
    /\ prev.students # {}
    /\ prev.rooms \cap server.rooms = {}
    /\ prev.students \cap server.students = {}
    /\ server.students # {}
    /\ out[1][2] # <<>>

\* Where control is when a report's query is about to be executed, and
\* when its rows are about to be fetched.
ExecutePc(query) ==
    CASE query = "student_counts" -> "student_counts_execute"
      [] query = "smallest_avg_age" -> "smallest_avg_age_execute"
      [] query = "largest_age_diff" -> "largest_age_diff_execute"
      [] OTHER -> "mixed_sex_rooms_execute"
FetchPc(query) ==
    CASE query = "student_counts" -> "student_counts_fetchall"
      [] query = "smallest_avg_age" -> "smallest_avg_age_fetchall"
      [] query = "largest_age_diff" -> "largest_age_diff_fetchall"
      [] OTHER -> "mixed_sex_rooms_fetchall"

\* Control is about to invoke execute, executemany or fetchall.
AtStatement ==
    pc \in {"create_database", "use_database", "create_room_table",
            "create_student_table", "create_index_room_id",
            "create_index_birthday", "create_index_room_sex",
            "clear_first", "clear_second", "insert_first", "insert_second"}
           \cup {ExecutePc(q) : q \in Range(ReportOrder)}
           \cup {FetchPc(q) : q \in Range(ReportOrder)}

\* C20: in a run, execute, executemany and fetchall are invoked only on an
\* open session and cursor, after connect() has returned and before
\* close(); a fetchall is reached only from the successful execute of its
\* own query, finds that query's rows on the cursor and hands back those.
C20_StatementsOnOpenSession ==
    /\ [](top = "run" =>
            /\ AtStatement =>
                  /\ conn = "open" /\ cursor = "open"
                  /\ "Connected" \in Range(states)
                  /\ "release" \notin Range(started)
            /\ \A q \in Range(ReportOrder) :
                  pc = FetchPc(q) =>
                      /\ result.ready
                      /\ result.rows \in AnswersTo(q, session))
    /\ [][top = "run" =>
            /\ \A q \in Range(ReportOrder) :
                  (pc' = FetchPc(q) /\ pc # FetchPc(q)) => pc = ExecutePc(q)
            /\ (out' # out /\ out' # <<>>) =>
                  /\ pc = FetchPc(Last(out')[1])
                  /\ Last(out')[2] = result.rows
                  /\ out' = Append(out, Last(out'))]_vars

\* The last report's query has been executed and its rows wait on the
\* cursor.
C20_Witness ==
    /\ top = "run"
    /\ pc = "mixed_sex_rooms_fetchall"
    /\ conn = "open" /\ cursor = "open"
    /\ result.ready
    /\ result.rows # <<>>
    /\ Len(out) = 3

====
